---- MODULE Spec2Model ----
(***************************************************************************)
(* A model of the support bot's moderation core: the sanction ledger       *)
(* (mutes table) driven by the mute / unmute commands, and the             *)
(* auto-moderation of incoming messages (the handler module's checkMessage *)
(* with its per-user spam window, and the standalone bot's filterMessage), *)
(* the text commands of both modules, and the standalone bot's handlers of *)
(* the MessageCreate and GuildCreate gateway events.                       *)
(*                                                                         *)
(* Times of the sanction ledger are in SECONDS: every duration the mute    *)
(* command computes is a multiple of 1000 ms, and the 28-day default       *)
(* (2 419 200 000 ms) does not fit the model checker's integers.  Times of *)
(* the spam window are in milliseconds, as in the source.                  *)
(***************************************************************************)
EXTENDS Integers, Sequences, FiniteSets, TLC

VARIABLES
    guild_settings,   \* guild_settings table: guild_id -> row
    clock,            \* wall clock read by the commands (Date.now(), in seconds)
    mutes,            \* mutes table: the rows in insertion order (id = index)
    extTimeout,       \* the platform's timeout of each member: guild -> user -> the
                      \* duration of the timeout in force (NULL: none)
    lastCmd,          \* the most recent mute / unmute command and its reply
    justMuted,        \* the (guild, member) pair that command muted, if it was a successful mute
    now,              \* wall clock read by checkSpam (Date.now(), in ms)
    messageCache,     \* autoModHandler.messageCache: user id -> {count, timestamps}
    automod_logs,     \* automod_logs table: the rows in insertion order
    outcome,          \* what the most recent auto-moderation call decided and did
    tally,            \* per user: the checkSpam calls made for the user so far
    capsText,         \* the message text handed to a caps check
    capsThreshold,    \* the caps threshold handed to it
    capsVerdict,      \* the caps check that ran last and what it returned
    warnings,         \* warnings table: the rows in insertion order
    bans,             \* bans table: the rows in insertion order
    cmdRun,           \* the most recent other command: its reply and the external
                      \* moderation calls it made
    cmdCount,         \* the number of commands handled so far
    settingsRows,     \* guild_settings table as the event handlers read and write
                      \* it: the rows in insertion order, a guild without a row
                      \* being a guild the bot has not seen yet
    events,           \* the MessageCreate / GuildCreate handlers started so far,
                      \* each with the point it has reached
    tickets,          \* tickets table: the rows in insertion order
    channels,         \* the ticket channels created in the guilds (id = index)
    creates,          \* the createTicket calls started so far, each with the
                      \* point it has reached
    spamCalls         \* the checkSpam calls that await handleViolation

vars == <<guild_settings, clock, mutes, extTimeout, lastCmd, justMuted, now,
          messageCache, automod_logs, outcome, tally,
          capsText, capsThreshold, capsVerdict, warnings, bans, cmdRun,
          cmdCount, settingsRows, events, tickets, channels, creates,
          spamCalls>>

ledgerVars == <<clock, mutes, extTimeout, lastCmd, justMuted>>

autoModVars == <<now, messageCache, automod_logs, outcome, tally>>

capsVars == <<capsText, capsThreshold, capsVerdict>>

\* What the steps of the sanction ledger, of auto-moderation and of the caps
\* checks leave alone.
cmdVars == <<warnings, bans, cmdRun, cmdCount>>

eventVars == <<settingsRows, events>>

ticketVars == <<tickets, channels, creates>>

outsideLedger == <<autoModVars, capsVars, cmdVars, eventVars, ticketVars, spamCalls>>

outsideAutoMod == <<ledgerVars, capsVars, cmdVars, eventVars, ticketVars, spamCalls>>

outsideCaps ==
    <<guild_settings, ledgerVars, autoModVars, cmdVars, eventVars, ticketVars, spamCalls>>

\* What the commands other than mute and unmute leave alone.
outsideCommands ==
    <<clock, mutes, extTimeout, lastCmd, justMuted, autoModVars, capsVars, eventVars,
      ticketVars, spamCalls>>

\* What the steps of the event handlers leave alone.
outsideEvents ==
    <<guild_settings, ledgerVars, now, messageCache, tally, capsVars,
      warnings, bans, cmdCount, ticketVars, spamCalls>>

\* What the steps of the ticket system leave alone.
outsideTickets ==
    <<guild_settings, ledgerVars, autoModVars, capsVars, cmdVars, eventVars, spamCalls>>

\* What the steps of interleaved checkSpam calls leave alone.
outsideSpamCalls ==
    <<guild_settings, ledgerVars, capsVars, cmdVars, eventVars, ticketVars>>

-----------------------------------------------------------------------------
(* Bounds of the model *)

MaxMutes == 2          \* rows the mutes table may hold
MaxTicks == 1          \* steps the sanction ledger's clock may take
MaxLimit == 2          \* largest auto_mod_spam_limit a guild is configured with
MaxSpamMsgs == 4       \* messages checked for spam in one run of the spam window
MaxMsgs == 2           \* messages that reach an auto-moderation entry point
MaxNowTicks == 2       \* steps the spam window's clock may take
MaxChars == 6          \* longest message text handed to a caps check
MaxWarnings == 1       \* rows the warnings table may hold
MaxBans == 1           \* rows the bans table may hold
MaxCmds == 2           \* commands handled in one run of the command set
MaxEvents == 2         \* gateway events delivered in one run of the event handlers
MaxCreates == 2        \* createTicket interactions delivered in one run of the ticket system
MaxTicketNumber == 1   \* largest ticket number the random draw yields

Guilds == {"g1", "g2"}
Users == {"u1", "u2"}

\* A command's issuer: the id and whether the member holds ModerateMembers.
Issuers == {[id |-> "m1", moderate |-> TRUE], [id |-> "u1", moderate |-> FALSE]}

\* The members a mute or unmute command can mention, per guild.
Members(g) == {"u1"}

\* message.mentions.members.first() when the command mentions nobody.
NoMember == "nobody"

\* args[1] of the mute command as its characters; <<>> is a missing argument.
DurationArgs ==
    { <<>>, <<"0", "m">>, <<"1", "m">>, <<"1", "x">> }

-----------------------------------------------------------------------------
(* Values *)

\* SQL NULL in the integer column expires_at; also "no timeout" on the platform
\* (member.timeout(null)) and "member.timeout was not called" in a command record.
NULL == -1

\* JavaScript undefined, the initial value of expiresAt in the mute command.
Undefined == -2

\* SQL NULL in a text column (mod_log_channel_id).
NullText == "NULL"

\* A guild_settings row with the schema's defaults (prefix "!",
\* auto_mod_enabled false, spam limit 5, caps percent 70, links off); a text
\* is the sequence of its characters.
DefaultSettings(modLog) ==
    [prefix |-> <<"!">>,
     auto_mod_enabled |-> FALSE, auto_mod_spam_limit |-> 5,
     auto_mod_caps_percent |-> 70, auto_mod_links_enabled |-> FALSE,
     mod_log_channel_id |-> modLog]

-----------------------------------------------------------------------------
(* The mutes table: database.addMute / removeMute / getActiveMutes *)

\* INSERT INTO mutes (...) VALUES (..., ${expiresAt || null}); active defaults
\* to true.  A Date is always truthy, so only undefined becomes NULL.
addMute(tbl, guildId, userId, moderatorId, expiresAt) ==
    Append(tbl, [guild_id |-> guildId, user_id |-> userId,
                 moderator_id |-> moderatorId,
                 expires_at |-> IF expiresAt = Undefined THEN NULL ELSE expiresAt,
                 active |-> TRUE])

\* A removeMute that deactivates only the most recent active row of the pair.
removeMuteLatest(tbl, guildId, userId) ==
    [i \in DOMAIN tbl |->
        IF /\ tbl[i].guild_id = guildId /\ tbl[i].user_id = userId /\ tbl[i].active
           /\ \A j \in DOMAIN tbl :
                (tbl[j].guild_id = guildId /\ tbl[j].user_id = userId /\ tbl[j].active)
                    => j <= i
        THEN [tbl[i] EXCEPT !.active = FALSE]
        ELSE tbl[i]]

\* A removeMute whose UPDATE has no guild_id condition.
removeMuteEverywhere(tbl, guildId, userId) ==
    [i \in DOMAIN tbl |->
        IF tbl[i].user_id = userId /\ tbl[i].active
        THEN [tbl[i] EXCEPT !.active = FALSE]
        ELSE tbl[i]]

\* A removeMute that deletes the rows of the pair.
removeMuteDeletes(tbl, guildId, userId) ==
    SelectSeq(tbl, LAMBDA r : ~(r.guild_id = guildId /\ r.user_id = userId /\ r.active))

\* UPDATE mutes SET active = false
\* WHERE guild_id = .. AND user_id = .. AND active = true
removeMute(tbl, guildId, userId) ==
    [i \in DOMAIN tbl |->
        IF tbl[i].guild_id = guildId /\ tbl[i].user_id = userId /\ tbl[i].active
        THEN [tbl[i] EXCEPT !.active = FALSE]
        ELSE tbl[i]]

\* SELECT * FROM mutes WHERE guild_id = .. AND active = true
getActiveMutes(tbl, guildId) ==
    SelectSeq(tbl, LAMBDA r : r.guild_id = guildId /\ r.active)

\* The ids (indices) of the active rows of one (guild, user) pair.
ActiveRows(tbl, guildId, userId) ==
    {i \in DOMAIN tbl :
        tbl[i].guild_id = guildId /\ tbl[i].user_id = userId /\ tbl[i].active}

-----------------------------------------------------------------------------
(* The mute command's duration argument *)

Digits == {"0", "1", "2", "3", "4", "5", "6", "7", "8", "9"}

DigitVal(c) ==
    CASE c = "0" -> 0 [] c = "1" -> 1 [] c = "2" -> 2 [] c = "3" -> 3
      [] c = "4" -> 4 [] c = "5" -> 5 [] c = "6" -> 6 [] c = "7" -> 7
      [] c = "8" -> 8 [] c = "9" -> 9

\* durationStr.match(/^(\d+)([mhd])$/)
durationMatch(str) ==
    /\ Len(str) >= 2
    /\ str[Len(str)] \in {"m", "h", "d"}
    /\ \A i \in 1..(Len(str) - 1) : str[i] \in Digits

RECURSIVE parseInt(_)
\* Number.parseInt(match[1]) of a string of decimal digits
parseInt(digits) ==
    IF digits = <<>> THEN 0
    ELSE parseInt(SubSeq(digits, 1, Len(digits) - 1)) * 10
         + DigitVal(digits[Len(digits)])

\* `duration` of the mute command, in seconds (the source computes
\* value * 60 * 1000 ms and so on); 0 when the argument is missing or malformed.
muteDuration(durationStr) ==
    IF durationStr # <<>> /\ durationMatch(durationStr)
    THEN LET value == parseInt(SubSeq(durationStr, 1, Len(durationStr) - 1))
             unit == durationStr[Len(durationStr)]
         IN CASE unit = "m" -> value * 60
              [] unit = "h" -> value * 60 * 60
              [] unit = "d" -> value * 24 * 60 * 60
    ELSE 0

\* A muteExpiresAt that computes the expiry outside the `if (match)`.
muteExpiresAtAlways(durationStr, t) == t + muteDuration(durationStr)

\* `expiresAt` of the mute command: new Date(Date.now() + duration) when the
\* argument matched, undefined otherwise.
muteExpiresAt(durationStr, t) ==
    IF durationStr # <<>> /\ durationMatch(durationStr)
    THEN t + muteDuration(durationStr)
    ELSE Undefined

\* The argument of member.timeout: duration || 28 * 24 * 60 * 60 * 1000
muteTimeoutArg(durationStr) ==
    IF muteDuration(durationStr) # 0
    THEN muteDuration(durationStr)
    ELSE 28 * 24 * 60 * 60

-----------------------------------------------------------------------------
(* The mute and unmute commands (moderationCommands in the standalone bot and
   moderationHandler in the handler module run the same steps) *)

\* The steps inside the try block of a command at which an external call can
\* throw; the mod-log send is only made when the guild has a mod-log channel.
FailPoints(g) ==
    {"none", "timeout", "db", "reply"}
        \cup (IF guild_settings[g].mod_log_channel_id # NullText
              THEN {"modlog"} ELSE {})

NoPair == <<"none", NoMember>>

NoCmd == [cmd |-> "none", reply |-> "none", afterMute |-> 0]

\* The record of a command: its reply and, for an unmute that directly follows
\* a successful mute of the same (guild, member) pair, the number of active
\* rows the pair had when the unmute started (0 otherwise).
CmdRecord(cmd, g, target, reply) ==
    [cmd |-> cmd, reply |-> reply,
     afterMute |-> IF cmd = "unmute" /\ target # NoMember /\ justMuted = <<g, target>>
                   THEN Cardinality(ActiveRows(mutes, g, target))
                   ELSE 0]

\* mute(message, args, settings), with the issuer's permission, the mentioned
\* member, args[1] and the step that throws (if any) as inputs.
mute(g, issuer, target, durationStr, fail) ==
    /\ Len(mutes) < MaxMutes
    /\ fail \in FailPoints(g)
    /\ IF ~issuer.moderate
       THEN /\ lastCmd' = CmdRecord("mute", g, NoMember,
                              "You do not have permission to use this command.")
            /\ justMuted' = NoPair
            /\ UNCHANGED <<mutes, extTimeout>>
       ELSE IF target = NoMember
       THEN /\ lastCmd' = CmdRecord("mute", g, NoMember,
                              "Please mention a user to mute.")
            /\ justMuted' = NoPair
            /\ UNCHANGED <<mutes, extTimeout>>
       ELSE IF fail = "timeout"
       THEN /\ lastCmd' = CmdRecord("mute", g, target, "Failed to mute user.")
            /\ justMuted' = NoPair
            /\ UNCHANGED <<mutes, extTimeout>>
       ELSE /\ extTimeout' = [extTimeout EXCEPT
                                ![g][target] = muteTimeoutArg(durationStr)]
            /\ IF fail = "db"
               THEN /\ lastCmd' = CmdRecord("mute", g, target, "Failed to mute user.")
                    /\ justMuted' = NoPair
                    /\ UNCHANGED mutes
               ELSE /\ mutes' = addMute(mutes, g, target, issuer.id,
                                        muteExpiresAt(durationStr, clock))
                    /\ lastCmd' = CmdRecord("mute", g, target,
                                      IF fail = "none" THEN "User Muted"
                                      ELSE "Failed to mute user.")
                    /\ justMuted' = IF fail = "none" THEN <<g, target>> ELSE NoPair
    /\ UNCHANGED <<clock, guild_settings>>

\* unmute(message, args, settings), with the same inputs.
unmute(g, issuer, target, fail) ==
    /\ fail \in FailPoints(g)
    /\ justMuted' = NoPair
    /\ IF ~issuer.moderate
       THEN /\ lastCmd' = CmdRecord("unmute", g, NoMember,
                              "You do not have permission to use this command.")
            /\ UNCHANGED <<mutes, extTimeout>>
       ELSE IF target = NoMember
       THEN /\ lastCmd' = CmdRecord("unmute", g, NoMember,
                              "Please mention a user to unmute.")
            /\ UNCHANGED <<mutes, extTimeout>>
       ELSE IF fail = "timeout"
       THEN /\ lastCmd' = CmdRecord("unmute", g, target, "Failed to unmute user.")
            /\ UNCHANGED <<mutes, extTimeout>>
       ELSE /\ extTimeout' = [extTimeout EXCEPT ![g][target] = NULL]
            /\ IF fail = "db"
               THEN /\ lastCmd' = CmdRecord("unmute", g, target, "Failed to unmute user.")
                    /\ UNCHANGED mutes
               ELSE /\ mutes' = removeMute(mutes, g, target)
                    /\ lastCmd' = CmdRecord("unmute", g, target,
                                      IF fail = "none" THEN "Unmuted"
                                      ELSE "Failed to unmute user.")
    /\ UNCHANGED <<clock, guild_settings>>

\* The wall clock of the commands advances, a minute at a time.
TickSeconds == muteDuration(<<"1", "m">>)

Tick ==
    /\ clock < MaxTicks * TickSeconds
    /\ clock' = clock + TickSeconds
    /\ UNCHANGED <<guild_settings, mutes, extTimeout, lastCmd, justMuted>>

\* The inputs of a command that its code reads: a command that is denied reads
\* neither its mention nor its arguments, one without a mention reads no argument.
MuteCmd ==
    \E g \in Guilds, issuer \in Issuers :
        IF ~issuer.moderate
        THEN mute(g, issuer, NoMember, <<>>, "none")
        ELSE \/ mute(g, issuer, NoMember, <<>>, "none")
             \/ \E target \in Members(g), durationStr \in DurationArgs,
                   fail \in FailPoints(g) :
                    mute(g, issuer, target, durationStr, fail)

UnmuteCmd ==
    \E g \in Guilds, issuer \in Issuers :
        IF ~issuer.moderate
        THEN unmute(g, issuer, NoMember, "none")
        ELSE \/ unmute(g, issuer, NoMember, "none")
             \/ \E target \in Members(g), fail \in FailPoints(g) :
                    unmute(g, issuer, target, fail)

-----------------------------------------------------------------------------
(* The other commands of moderationCommands (the standalone bot) and of
   moderationHandler (the handler module) *)

Variants == {"standalone", "handler"}

\* The members who issue commands, by the permissions they hold.
CmdIssuers ==
    { [id |-> "a1", perms |-> {"Administrator"}],
      [id |-> "m1", perms |-> {"ModerateMembers"}],
      [id |-> "k1", perms |-> {"KickMembers", "BanMembers", "ManageMessages"}],
      [id |-> "u2", perms |-> {}] }

\* message.member.permissions.has(flag): a member who holds Administrator has
\* every permission.
has(perms, flag) == flag \in perms \/ "Administrator" \in perms

Denial == "You do not have permission to use this command."

NoRun ==
    [variant |-> "none", cmd |-> "none", reply |-> "none", calls |-> {},
     deleted |-> 0, threw |-> FALSE]

\* The record of a command that made no external moderation call.
Ran(variant, cmd, reply) ==
    [variant |-> variant, cmd |-> cmd, reply |-> reply, calls |-> {},
     deleted |-> 0, threw |-> FALSE]

\* database.addWarning / database.addBan
addWarning(tbl, guildId, userId, moderatorId) ==
    Append(tbl, [guild_id |-> guildId, user_id |-> userId, moderator_id |-> moderatorId])

addBan(tbl, guildId, userId, moderatorId) ==
    Append(tbl, [guild_id |-> guildId, user_id |-> userId, moderator_id |-> moderatorId])

\* database.getUserWarnings / database.clearWarnings
getUserWarnings(tbl, guildId, userId) ==
    SelectSeq(tbl, LAMBDA r : r.guild_id = guildId /\ r.user_id = userId)

clearWarnings(tbl, guildId, userId) ==
    SelectSeq(tbl, LAMBDA r : ~(r.guild_id = guildId /\ r.user_id = userId))

\* database.updateGuildSettings(guildId, { prefix })
updateGuildSettings(tbl, guildId, newPrefix) ==
    [tbl EXCEPT ![guildId].prefix = newPrefix]

\* The steps of a command at which an external call can throw: the platform
\* call (kick, ban, unban, bulkDelete), the database write, the reply, and the
\* mod-log send when the guild has a mod-log channel.
CmdFails(g) ==
    {"none", "call", "db", "reply"}
        \cup (IF guild_settings[g].mod_log_channel_id # NullText
              THEN {"modlog"} ELSE {})

\* The record of a command whose awaited call threw outside a try block.
Threw(variant, cmd) == [Ran(variant, cmd, "none") EXCEPT !.threw = TRUE]

\* warn(message, args, settings): no try block; addWarning, then the reply,
\* then the mod-log send.
warn(variant, g, issuer, target, fail) ==
    /\ Len(warnings) < MaxWarnings
    /\ fail \in CmdFails(g) \ {"call"}
    /\ IF ~has(issuer.perms, "ModerateMembers")
       THEN cmdRun' = Ran(variant, "warn", Denial) /\ UNCHANGED warnings
       ELSE IF target = NoMember
       THEN cmdRun' = Ran(variant, "warn", "Please mention a user to warn.")
            /\ UNCHANGED warnings
       ELSE IF fail = "db"
       THEN cmdRun' = Threw(variant, "warn") /\ UNCHANGED warnings
       ELSE /\ warnings' = addWarning(warnings, g, target, issuer.id)
            /\ cmdRun' = IF fail = "reply" THEN Threw(variant, "warn")
                         ELSE [Ran(variant, "warn", "User Warned")
                                  EXCEPT !.threw = (fail = "modlog")]
    /\ UNCHANGED <<guild_settings, bans>>

\* warnings: getWarnings(message, args) only reads.
getWarnings(variant, g, issuer, target) ==
    /\ cmdRun' =
         IF ~has(issuer.perms, "ModerateMembers")
         THEN Ran(variant, "warnings", Denial)
         ELSE IF target = NoMember
         THEN Ran(variant, "warnings", "Please mention a user to view warnings.")
         ELSE IF Len(getUserWarnings(warnings, g, target)) = 0
         THEN Ran(variant, "warnings", "has no warnings.")
         ELSE Ran(variant, "warnings", "Warnings for")
    /\ UNCHANGED <<guild_settings, warnings, bans>>

\* clearwarnings: clearWarnings(message, args), no try block.
clearWarningsCmd(variant, g, issuer, target, fail) ==
    /\ fail \in {"none", "db"}
    /\ IF ~has(issuer.perms, "ModerateMembers")
       THEN cmdRun' = Ran(variant, "clearwarnings", Denial) /\ UNCHANGED warnings
       ELSE IF target = NoMember
       THEN cmdRun' = Ran(variant, "clearwarnings",
                          "Please mention a user to clear warnings.")
            /\ UNCHANGED warnings
       ELSE IF fail = "db"
       THEN cmdRun' = Threw(variant, "clearwarnings") /\ UNCHANGED warnings
       ELSE /\ warnings' = clearWarnings(warnings, g, target)
            /\ cmdRun' = Ran(variant, "clearwarnings", "Cleared all warnings")
    /\ UNCHANGED <<guild_settings, bans>>

\* A kick that does not look at the issuer's permissions.
kickUnguarded(variant, g, issuer, target, fail) ==
    /\ fail \in CmdFails(g) \ {"db"}
    /\ cmdRun' =
         IF target = NoMember
         THEN Ran(variant, "kick", "Please mention a user to kick.")
         ELSE IF fail = "call"
         THEN Ran(variant, "kick", "Failed to kick user.")
         ELSE [Ran(variant, "kick", IF fail = "none" THEN "User Kicked"
                                    ELSE "Failed to kick user.")
                  EXCEPT !.calls = {"kick"}]
    /\ UNCHANGED <<guild_settings, warnings, bans>>

\* kick(message, args, settings): member.kick, the reply and the mod-log send
\* in one try block.
kick(variant, g, issuer, target, fail) ==
    /\ fail \in CmdFails(g) \ {"db"}
    /\ cmdRun' =
         IF ~has(issuer.perms, "KickMembers")
         THEN Ran(variant, "kick", Denial)
         ELSE IF target = NoMember
         THEN Ran(variant, "kick", "Please mention a user to kick.")
         ELSE IF fail = "call"
         THEN Ran(variant, "kick", "Failed to kick user.")
         ELSE [Ran(variant, "kick", IF fail = "none" THEN "User Kicked"
                                    ELSE "Failed to kick user.")
                  EXCEPT !.calls = {"kick"}]
    /\ UNCHANGED <<guild_settings, warnings, bans>>

\* ban(message, args, settings): member.ban, addBan, the reply and the mod-log
\* send in one try block.
ban(variant, g, issuer, target, fail) ==
    /\ Len(bans) < MaxBans
    /\ fail \in CmdFails(g)
    /\ IF ~has(issuer.perms, "BanMembers")
       THEN cmdRun' = Ran(variant, "ban", Denial) /\ UNCHANGED bans
       ELSE IF target = NoMember
       THEN cmdRun' = Ran(variant, "ban", "Please mention a user to ban.")
            /\ UNCHANGED bans
       ELSE IF fail = "call"
       THEN cmdRun' = Ran(variant, "ban", "Failed to ban user.") /\ UNCHANGED bans
       ELSE /\ cmdRun' = [Ran(variant, "ban", IF fail = "none" THEN "User Banned"
                                              ELSE "Failed to ban user.")
                             EXCEPT !.calls = {"ban"}]
            /\ bans' = IF fail = "db" THEN bans
                       ELSE addBan(bans, g, target, issuer.id)
    /\ UNCHANGED <<guild_settings, warnings>>

\* unban(message, args): the platform's unban and the reply in one try block;
\* hasArg says whether args[0] is there.
unban(variant, g, issuer, hasArg, fail) ==
    /\ fail \in {"none", "call", "reply"}
    /\ cmdRun' =
         IF ~has(issuer.perms, "BanMembers")
         THEN Ran(variant, "unban", Denial)
         ELSE IF ~hasArg
         THEN Ran(variant, "unban", "Please provide a user to unban.")
         ELSE IF fail = "call"
         THEN Ran(variant, "unban", "Failed to unban user.")
         ELSE [Ran(variant, "unban", IF fail = "none" THEN "Unbanned user"
                                     ELSE "Failed to unban user.")
                  EXCEPT !.calls = {"unban"}]
    /\ UNCHANGED <<guild_settings, warnings, bans>>

\* Number.parseInt(args[0]) of the purge command: an optional sign, then the
\* longest run of leading decimal digits; NaN when the argument is missing or
\* has no leading digit.  (An argument is the sequence of its characters.)
NaN == [nan |-> TRUE, value |-> 0]

unsigned(str) ==
    IF Len(str) >= 1 /\ str[1] \in {"-", "+"} THEN Tail(str) ELSE str

\* The number of leading characters of str that are digits.
leadingDigits(str) ==
    IF \A i \in 1..Len(str) : str[i] \in Digits THEN Len(str)
    ELSE (CHOOSE i \in 1..Len(str) :
            /\ str[i] \notin Digits
            /\ \A j \in 1..(i - 1) : str[j] \in Digits) - 1

purgeAmount(arg) ==
    LET body == unsigned(arg)
        n == leadingDigits(body)
        magnitude == parseInt(SubSeq(body, 1, n))
    IN IF n = 0 THEN NaN
       ELSE [nan |-> FALSE,
             value |-> IF Len(arg) >= 1 /\ arg[1] = "-" THEN 0 - magnitude
                       ELSE magnitude]

\* The validation of the amount: `!amount || amount < 1 || amount > 100` in
\* the standalone bot, `isNaN(amount) || amount < 1 || amount > 100` in the
\* handler module.
purgeRejects(variant, arg) ==
    LET amount == purgeAmount(arg)
    IN \/ amount.nan
       \/ variant = "standalone" /\ amount.value = 0
       \/ amount.value < 1
       \/ amount.value > 100

\* purge(message, args): bulkDelete(amount + 1) and the reply in one try block.
purge(variant, g, issuer, arg, fail) ==
    /\ fail \in {"none", "call", "reply"}
    /\ cmdRun' =
         IF ~has(issuer.perms, "ManageMessages")
         THEN Ran(variant, "purge", Denial)
         ELSE IF purgeRejects(variant, arg)
         THEN Ran(variant, "purge", "Please specify a number between 1 and 100.")
         ELSE IF fail = "call"
         THEN Ran(variant, "purge", "Failed to purge messages.")
         ELSE [Ran(variant, "purge", IF fail = "none" THEN "Deleted messages."
                                     ELSE "Failed to purge messages.")
                  EXCEPT !.calls = {"bulkDelete"},
                         !.deleted = purgeAmount(arg).value + 1]
    /\ UNCHANGED <<guild_settings, warnings, bans>>

\* The validation of the new prefix: `!newPrefix || newPrefix.length > 5` in
\* the standalone bot, `!newPrefix` in the handler module.
setPrefixRejects(variant, newPrefix) ==
    \/ newPrefix = <<>>
    \/ variant = "standalone" /\ Len(newPrefix) > 5

\* setPrefix(message, args): no try block; updateGuildSettings, then the reply.
setPrefix(variant, g, issuer, newPrefix, fail) ==
    /\ fail \in {"none", "db", "reply"}
    /\ IF ~has(issuer.perms, "Administrator")
       THEN cmdRun' = Ran(variant, "setprefix", Denial) /\ UNCHANGED guild_settings
       ELSE IF setPrefixRejects(variant, newPrefix)
       THEN cmdRun' = Ran(variant, "setprefix", "Please provide a valid prefix.")
            /\ UNCHANGED guild_settings
       ELSE IF fail = "db"
       THEN cmdRun' = Threw(variant, "setprefix") /\ UNCHANGED guild_settings
       ELSE /\ guild_settings' = updateGuildSettings(guild_settings, g, newPrefix)
            /\ cmdRun' = IF fail = "reply" THEN Threw(variant, "setprefix")
                         ELSE Ran(variant, "setprefix", "Prefix changed")
    /\ UNCHANGED <<warnings, bans>>

\* setup(message): replies with the setup instructions.
setup(variant, g, issuer) ==
    /\ cmdRun' = IF ~has(issuer.perms, "Administrator")
                 THEN Ran(variant, "setup", Denial)
                 ELSE Ran(variant, "setup", "Setup")
    /\ UNCHANGED <<guild_settings, warnings, bans>>

\* help(message): replies with the command list, whoever asks.
help(variant, g, issuer) ==
    /\ cmdRun' = Ran(variant, "help", "Help")
    /\ UNCHANGED <<guild_settings, warnings, bans>>

\* The arguments tried: of purge, of setprefix.
PurgeArgs ==
    { <<>>, <<"0">>, <<"5">>, <<"-", "1">>, <<"1", "0", "0">>, <<"1", "5", "0">>,
      <<"x">>, <<"5", "x">> }

PrefixArgs == { <<>>, <<"?">>, <<"b", "o", "t", "!", "!">>, <<"b", "o", "t", "!", "!", "!">> }

\* The guild the commands are issued in.
CmdGuild == "g1"

MentionArgs == Members(CmdGuild) \cup {NoMember}

\* A command that is denied reads none of its arguments and makes no call that
\* could fail: its inputs beyond the issuer are left out.
WarnCmd ==
    \E v \in Variants, issuer \in CmdIssuers :
        IF ~has(issuer.perms, "ModerateMembers")
        THEN warn(v, CmdGuild, issuer, NoMember, "none")
        ELSE \E target \in MentionArgs, fail \in CmdFails(CmdGuild) :
                warn(v, CmdGuild, issuer, target, fail)

WarningsCmd ==
    \E v \in Variants, issuer \in CmdIssuers, target \in MentionArgs :
        getWarnings(v, CmdGuild, issuer, target)

ClearWarningsCmd ==
    \E v \in Variants, issuer \in CmdIssuers :
        IF ~has(issuer.perms, "ModerateMembers")
        THEN clearWarningsCmd(v, CmdGuild, issuer, NoMember, "none")
        ELSE \E target \in MentionArgs, fail \in {"none", "db"} :
                clearWarningsCmd(v, CmdGuild, issuer, target, fail)

KickCmd ==
    \E v \in Variants, issuer \in CmdIssuers :
        IF ~has(issuer.perms, "KickMembers")
        THEN kick(v, CmdGuild, issuer, NoMember, "none")
        ELSE \E target \in MentionArgs, fail \in CmdFails(CmdGuild) :
                kick(v, CmdGuild, issuer, target, fail)

BanCmd ==
    \E v \in Variants, issuer \in CmdIssuers :
        IF ~has(issuer.perms, "BanMembers")
        THEN ban(v, CmdGuild, issuer, NoMember, "none")
        ELSE \E target \in MentionArgs, fail \in CmdFails(CmdGuild) :
                ban(v, CmdGuild, issuer, target, fail)

UnbanCmd ==
    \E v \in Variants, issuer \in CmdIssuers :
        IF ~has(issuer.perms, "BanMembers")
        THEN unban(v, CmdGuild, issuer, FALSE, "none")
        ELSE \E hasArg \in BOOLEAN, fail \in {"none", "call", "reply"} :
                unban(v, CmdGuild, issuer, hasArg, fail)

PurgeCmd ==
    \E v \in Variants, issuer \in CmdIssuers :
        IF ~has(issuer.perms, "ManageMessages")
        THEN purge(v, CmdGuild, issuer, <<>>, "none")
        ELSE \E arg \in PurgeArgs, fail \in {"none", "call", "reply"} :
                purge(v, CmdGuild, issuer, arg, fail)

SetPrefixCmd ==
    \E v \in Variants, issuer \in CmdIssuers :
        IF ~has(issuer.perms, "Administrator")
        THEN setPrefix(v, CmdGuild, issuer, <<>>, "none")
        ELSE \E newPrefix \in PrefixArgs, fail \in {"none", "db", "reply"} :
                setPrefix(v, CmdGuild, issuer, newPrefix, fail)

SetupCmd ==
    \E v \in Variants, issuer \in CmdIssuers : setup(v, CmdGuild, issuer)

HelpCmd ==
    \E v \in Variants, issuer \in CmdIssuers : help(v, CmdGuild, issuer)

\* mute and unmute as issued by the same members, without a duration and with
\* every call succeeding.
asIssuer(issuer) ==
    [id |-> issuer.id, moderate |-> has(issuer.perms, "ModerateMembers")]

MuteByCmd ==
    \E issuer \in CmdIssuers, target \in MentionArgs :
        mute(CmdGuild, asIssuer(issuer), target, <<>>, "none")

UnmuteByCmd ==
    \E issuer \in CmdIssuers, target \in MentionArgs :
        unmute(CmdGuild, asIssuer(issuer), target, "none")

-----------------------------------------------------------------------------
(* Messages *)

\* What the detectors read of message.content: its length, the number of
\* letters and of uppercase letters in it, and whether it holds an http(s) URL.
Plain == [chars |-> 11, letters |-> 10, upper |-> 1, url |-> FALSE]   \* "Hello there"
Loud == [chars |-> 12, letters |-> 10, upper |-> 10, url |-> FALSE]   \* "THIS IS LOUD"
Link == [chars |-> 19, letters |-> 14, upper |-> 0, url |-> TRUE]     \* "see http://spam.io/"
\* "ABSOLUTELYEVERYBODYMUSTREADTHIS http://X.IO"
LoudLink == [chars |-> 43, letters |-> 38, upper |-> 34, url |-> TRUE]

Contents == {Plain, Loud, Link, LoudLink}

\* The author's permissions: none of the two, ModerateMembers, Administrator.
Perms == {"member", "moderator", "administrator"}

Messages ==
    {m \in [guild : Guilds, author : Users, perm : Perms, bot : BOOLEAN,
            content : Contents] :
        m.bot => (m.perm = "member" /\ m.content = Plain)}

-----------------------------------------------------------------------------
(* The handler module: autoModHandler *)

timeWindow == 5000

EmptyCache == [u \in {} |-> 0]

\* messageCache.get(userId), or the entry checkSpam creates for a new user
userDataOf(cache, userId) ==
    IF userId \in DOMAIN cache THEN cache[userId]
    ELSE [count |-> 0, timestamps |-> <<>>]

\* userData.timestamps after the filter and the push
spamWindow(userData, t) ==
    Append(SelectSeq(userData.timestamps, LAMBDA ts : t - ts < timeWindow), t)

\* A checkSpam that trips only above the limit.
spamTrippedAbove(userData, t, limit) == Len(spamWindow(userData, t)) > limit

\* userData.count >= settings.auto_mod_spam_limit
spamTripped(userData, t, limit) == Len(spamWindow(userData, t)) >= limit

\* userData when checkSpam returns: reset after a trip, the window otherwise
spamStored(userData, t, limit) ==
    IF spamTripped(userData, t, limit)
    THEN [count |-> 0, timestamps |-> <<>>]
    ELSE [count |-> Len(spamWindow(userData, t)),
          timestamps |-> spamWindow(userData, t)]

\* checkCaps: (capsCount / text.length) * 100 >= auto_mod_caps_percent, for
\* texts of at least 5 characters
checkCaps(content, settings) ==
    IF content.chars < 5 THEN FALSE
    ELSE content.upper * 100 >= settings.auto_mod_caps_percent * content.chars

\* checkLinks: /(https?:\/\/[^\s]+)/g.test(message.content)
checkLinks(content) == content.url

\* The steps of handleViolation's try block at which an external call can throw.
FailAts == {"none", "delete", "db", "send", "modlog"}

NoOutcome ==
    [entry |-> "none", rule |-> "none", deleted |-> FALSE, logged |-> FALSE,
     notice |-> FALSE, modLog |-> FALSE, threw |-> FALSE]

\* A handleViolation that writes the log row before it deletes the message.
handleViolationLogsFirst(m, reason, settings, failAt) ==
    [entry |-> "checkMessage", rule |-> reason,
     logged |-> failAt # "db",
     deleted |-> failAt \notin {"db", "delete"},
     notice |-> failAt \notin {"delete", "db", "send"},
     modLog |-> settings.mod_log_channel_id # NullText /\ failAt = "none",
     threw |-> FALSE]

\* handleViolation(message, reason, settings): delete the message, log to the
\* database, send the notice, send to the mod-log channel; the first call that
\* throws ends it (the catch only logs to the console).
handleViolation(m, reason, settings, failAt) ==
    [entry |-> "checkMessage", rule |-> reason,
     deleted |-> failAt # "delete",
     logged |-> failAt \notin {"delete", "db"},
     notice |-> failAt \notin {"delete", "db", "send"},
     modLog |-> settings.mod_log_channel_id # NullText /\ failAt = "none",
     threw |-> FALSE]

\* The rule checkMessage reports for a message: spam first, then caps, then
\* links (only when links are enabled), else none.
checkMessageRule(m, settings) ==
    IF spamTripped(userDataOf(messageCache, m.author), now, settings.auto_mod_spam_limit)
    THEN "Spam detected"
    ELSE IF checkCaps(m.content, settings) THEN "Excessive caps usage"
    ELSE IF settings.auto_mod_links_enabled /\ checkLinks(m.content)
    THEN "Unauthorized link posting"
    ELSE "none"

\* db.logAutoMod(guildId, userId, "delete", reason)
logAutoMod(tbl, guildId, userId, action, reason) ==
    Append(tbl, [guild_id |-> guildId, user_id |-> userId, action |-> action,
                 reason |-> reason])

\* checkMessage(message, settings), each call running to completion before the
\* next starts.
checkMessage(m, failAt) ==
    LET settings == guild_settings[m.guild]
        userData == userDataOf(messageCache, m.author)
        rule == checkMessageRule(m, settings)
        done == IF rule = "none"
                THEN [NoOutcome EXCEPT !.entry = "checkMessage"]
                ELSE handleViolation(m, rule, settings, failAt)
    IN /\ failAt \in (IF settings.mod_log_channel_id # NullText
                      THEN FailAts ELSE FailAts \ {"modlog"})
       /\ rule = "none" => failAt = "none"
       /\ messageCache' =
            [u \in DOMAIN messageCache \cup {m.author} |->
                IF u = m.author
                THEN spamStored(userData, now, settings.auto_mod_spam_limit)
                ELSE messageCache[u]]
       /\ outcome' = done
       /\ automod_logs' = IF done.logged
                          THEN logAutoMod(automod_logs, m.guild, m.author,
                                          "delete", rule)
                          ELSE automod_logs
       /\ tally' = [tally EXCEPT ![m.author] =
            [sent |-> @.sent + 1,
             first |-> IF @.sent = 0 THEN now ELSE @.first,
             limits |-> @.limits \cup {settings.auto_mod_spam_limit}]]
       /\ UNCHANGED <<now, guild_settings>>

\* checkMessage as the event loop runs it.  checkSpam filters, pushes and
\* counts without suspending; when the count reaches the limit it awaits
\* handleViolation, whose first await (message.delete) suspends the call, and
\* the reset of the window follows only when handleViolation has returned.
\* Messages that arrive in between are checked against the window as stored.
\* Only the spam rule is followed across its suspension: the messages taken
\* here match no other rule.
checkSpamBegin(m) ==
    LET settings == guild_settings[m.guild]
        userData == userDataOf(messageCache, m.author)
        window == spamWindow(userData, now)
        tripped == spamTripped(userData, now, settings.auto_mod_spam_limit)
        rule == checkMessageRule(m, settings)
    IN /\ messageCache' =
            [u \in DOMAIN messageCache \cup {m.author} |->
                IF u = m.author
                THEN [count |-> Len(window), timestamps |-> window]
                ELSE messageCache[u]]
       /\ tally' = [tally EXCEPT ![m.author] =
            [sent |-> @.sent + 1,
             first |-> IF @.sent = 0 THEN now ELSE @.first,
             limits |-> @.limits \cup {settings.auto_mod_spam_limit}]]
       /\ IF tripped
          THEN /\ spamCalls' = Append(spamCalls,
                                      [message |-> m, settings |-> settings,
                                       pc |-> "handleViolation"])
               /\ UNCHANGED <<outcome, automod_logs>>
          ELSE /\ rule = "none"
               /\ outcome' = [NoOutcome EXCEPT !.entry = "checkMessage"]
               /\ UNCHANGED <<spamCalls, automod_logs>>
       /\ UNCHANGED <<now, guild_settings>>

\* handleViolation returns to the suspended checkSpam, which resets the
\* window and returns true.
checkSpamResume(i, failAt) ==
    LET call == spamCalls[i]
        m == call.message
        done == handleViolation(m, "Spam detected", call.settings, failAt)
    IN /\ call.pc = "handleViolation"
       /\ failAt \in (IF call.settings.mod_log_channel_id # NullText
                      THEN FailAts ELSE FailAts \ {"modlog"})
       /\ outcome' = done
       /\ automod_logs' = IF done.logged
                          THEN logAutoMod(automod_logs, m.guild, m.author,
                                          "delete", "Spam detected")
                          ELSE automod_logs
       /\ messageCache' = [messageCache EXCEPT ![m.author] =
                              [count |-> 0, timestamps |-> <<>>]]
       /\ spamCalls' = [spamCalls EXCEPT ![i].pc = "done"]
       /\ UNCHANGED <<now, guild_settings, tally>>

-----------------------------------------------------------------------------
(* The standalone bot: autoModeration *)

\* detectSpam calls .replace on a regular expression literal; a RegExp has no
\* such method, so every call throws a TypeError before anything is tested.
detectSpam(content, limit) == "TypeError"

\* A detectExcessiveCaps without the length guard.
detectExcessiveCapsAnyLength(content, threshold) ==
    IF content.letters = 0 THEN FALSE
    ELSE content.upper * 100 > threshold * content.letters

\* A detectExcessiveCaps whose letters are the lowercase letters only.
detectExcessiveCapsOverLower(content, threshold) ==
    IF content.chars < 5 THEN FALSE
    ELSE IF content.letters - content.upper = 0 THEN FALSE
    ELSE content.upper * 100 > threshold * (content.letters - content.upper)

\* detectExcessiveCaps: (capsCount / letters.length) * 100 > threshold, for
\* contents of at least 5 characters that hold a letter
detectExcessiveCaps(content, threshold) ==
    IF content.chars < 5 THEN FALSE
    ELSE IF content.letters = 0 THEN FALSE
    ELSE content.upper * 100 > threshold * content.letters

\* detectSuspiciousLinks: an http(s)/ftp URL (or one of the listed domains)
detectSuspiciousLinks(content) == content.url

\* The steps of a filterMessage branch at which an external call can throw:
\* message.delete(), message.author.send(), database.logAutoMod().
FilterFailAts == {"none", "delete", "send", "db"}

\* The rule filterMessage reports for a message it does not skip.
filterMessageRule(m, settings) ==
    LET spamLimit == IF settings.auto_mod_spam_limit # 0
                     THEN settings.auto_mod_spam_limit ELSE 5
        capsPercent == IF settings.auto_mod_caps_percent # 0
                       THEN settings.auto_mod_caps_percent ELSE 70
    IN IF detectSpam(m.content, spamLimit) = "TypeError" THEN "TypeError"
       ELSE IF detectSpam(m.content, spamLimit) = "match" THEN "SPAM"
       ELSE IF detectExcessiveCaps(m.content, capsPercent) THEN "EXCESSIVE_CAPS"
       ELSE IF settings.auto_mod_links_enabled /\ detectSuspiciousLinks(m.content)
       THEN "LINK_DETECTED"
       ELSE "none"

filterReason(rule) ==
    CASE rule = "SPAM" -> "Repeated characters detected"
      [] rule = "EXCESSIVE_CAPS" -> "Too many capital letters"
      [] rule = "LINK_DETECTED" -> "Suspicious link detected"

\* What getGuildSettings returns for a guild without a row: null, a value
\* without fields.
NoSettings == << >>

\* filterMessage(message, settings)
filterMessage(m, settings, failAt) ==
    LET skipped(why) == [NoOutcome EXCEPT !.entry = "filterMessage", !.rule = why]
        rule == filterMessageRule(m, settings)
    IN /\ failAt \in FilterFailAts
       /\ IF DOMAIN settings = {} \/ ~settings.auto_mod_enabled
          THEN failAt = "none" /\ outcome' = skipped("disabled")
                               /\ UNCHANGED automod_logs
          ELSE IF m.bot
          THEN failAt = "none" /\ outcome' = skipped("bot")
                               /\ UNCHANGED automod_logs
          ELSE IF m.perm \in {"administrator", "moderator"}
          THEN failAt = "none" /\ outcome' = skipped("exempt")
                               /\ UNCHANGED automod_logs
          ELSE IF rule = "TypeError"
          THEN failAt = "none" /\ outcome' = [skipped("TypeError") EXCEPT !.threw = TRUE]
                               /\ UNCHANGED automod_logs
          ELSE IF rule = "none"
          THEN failAt = "none" /\ outcome' = skipped("none")
                               /\ UNCHANGED automod_logs
          ELSE /\ outcome' = [entry |-> "filterMessage", rule |-> rule,
                              deleted |-> failAt # "delete",
                              logged |-> failAt = "none",
                              notice |-> failAt \notin {"delete", "send"},
                              modLog |-> FALSE,
                              threw |-> failAt # "none"]
               /\ automod_logs' = IF failAt = "none"
                                  THEN logAutoMod(automod_logs, m.guild, m.author,
                                                  rule, filterReason(rule))
                                  ELSE automod_logs
       /\ UNCHANGED <<now, messageCache, tally, guild_settings>>

\* The wall clock of the spam window advances, half a window at a time.
NowStep == timeWindow \div 2

AdvanceNow ==
    /\ now < MaxNowTicks * NowStep
    /\ now' = now + NowStep
    /\ UNCHANGED <<guild_settings, messageCache, automod_logs, outcome, tally>>

\* The number of messages checkSpam has been called for.
Sent == tally["u1"].sent + tally["u2"].sent

CheckMessage ==
    \E m \in Messages, failAt \in FailAts : checkMessage(m, failAt)

FilterMessage ==
    \E m \in Messages, failAt \in FilterFailAts : filterMessage(m, guild_settings[m.guild], failAt)

\* checkMessage on the plain messages one member sends to either guild: only
\* the spam rule can match.
CheckPlainMessage ==
    \E m \in Messages, failAt \in FailAts :
        /\ m.content = Plain /\ m.perm = "member" /\ ~m.bot /\ m.author = "u1"
        /\ checkMessage(m, failAt)

-----------------------------------------------------------------------------
(* The two caps checks as functions of the text and the threshold *)

\* The texts of up to MaxChars characters, by what the checks read of them.
Texts ==
    {t \in [chars : 0..MaxChars, letters : 0..MaxChars, upper : 0..MaxChars,
            url : {FALSE}] :
        t.upper <= t.letters /\ t.letters <= t.chars}

\* Values of auto_mod_caps_percent / of detectExcessiveCaps's threshold.
Thresholds == {0, 1, 50, 70, 100}

NoVerdict == [check |-> "none", flagged |-> FALSE]

\* this.checkCaps(message, settings) on the text, in a guild whose
\* auto_mod_caps_percent is the threshold
RunCheckCaps ==
    /\ capsVerdict' =
         [check |-> "checkCaps",
          flagged |-> checkCaps(capsText,
                        [DefaultSettings(NullText) EXCEPT
                            !.auto_mod_caps_percent = capsThreshold])]
    /\ UNCHANGED <<capsText, capsThreshold>>

\* this.detectExcessiveCaps(content, threshold) on the text
RunDetectExcessiveCaps ==
    /\ capsVerdict' =
         [check |-> "detectExcessiveCaps",
          flagged |-> detectExcessiveCaps(capsText, capsThreshold)]
    /\ UNCHANGED <<capsText, capsThreshold>>

-----------------------------------------------------------------------------
(* The gateway events of the standalone bot: client.on(Events.MessageCreate)
   and client.on(Events.GuildCreate).  Each handler is an async function: it
   runs up to its next await, and the handlers of other events run in between. *)

\* A row of guild_settings: its key and the columns the bot reads.
SettingsRow(guildId, settings) ==
    [guild_id |-> guildId,
     prefix |-> settings.prefix,
     auto_mod_enabled |-> settings.auto_mod_enabled,
     auto_mod_spam_limit |-> settings.auto_mod_spam_limit,
     auto_mod_caps_percent |-> settings.auto_mod_caps_percent,
     auto_mod_links_enabled |-> settings.auto_mod_links_enabled,
     mod_log_channel_id |-> settings.mod_log_channel_id]

\* The rows of a guild.
rowsOf(rows, guildId) == SelectSeq(rows, LAMBDA r : r.guild_id = guildId)

\* getGuildSettings(guildId): result[0] || null
getGuildSettings(rows, guildId) ==
    IF rowsOf(rows, guildId) # <<>> THEN rowsOf(rows, guildId)[1] ELSE NoSettings

\* A createGuildSettings that inserts whether or not the guild has a row.
createGuildSettingsAgain(rows, guildId) ==
    Append(rows, SettingsRow(guildId, DefaultSettings(NullText)))

\* createGuildSettings(guildId): INSERT INTO guild_settings (guild_id) ...
\* ON CONFLICT (guild_id) DO NOTHING, guild_id being the primary key
createGuildSettings(rows, guildId) ==
    IF rowsOf(rows, guildId) # <<>> THEN rows
    ELSE Append(rows, SettingsRow(guildId, DefaultSettings(NullText)))

\* CONFIG.defaultPrefix
defaultPrefix == <<"!">>

\* A test that takes only the bare prefix for a command.
startsWithOnly(text, prefix) == text = prefix

\* message.content.startsWith(prefix)
startsWith(text, prefix) ==
    Len(prefix) <= Len(text) /\ SubSeq(text, 1, Len(prefix)) = prefix

\* The message contents delivered: the help command, a shouted line, and a
\* shouted line behind the prefix that names no command; each with what the
\* detectors read of it.
HelpText == <<"!", "h", "e", "l", "p">>
ShoutText == <<"L", "O", "U", "D", "!", "!">>
PrefixedShoutText == <<"!", "L", "O", "U", "D", "S">>

EventContents ==
    { [text |-> HelpText,
       content |-> [chars |-> 5, letters |-> 4, upper |-> 0, url |-> FALSE]],
      [text |-> ShoutText,
       content |-> [chars |-> 6, letters |-> 4, upper |-> 4, url |-> FALSE]],
      [text |-> PrefixedShoutText,
       content |-> [chars |-> 6, letters |-> 5, upper |-> 5, url |-> FALSE]] }

\* The messages delivered: by a member without moderation permissions, by an
\* administrator, or (the shouted line) by a bot.
EventMessages ==
    { m \in { [guild |-> g, author |-> "u1", perm |-> p, bot |-> b,
               text |-> c.text, content |-> c.content] :
                 g \in Guilds, p \in {"member", "administrator"}, b \in BOOLEAN,
                 c \in EventContents } :
        m.bot => (m.perm = "member" /\ m.text = ShoutText) }

\* The commands of the router that the messages delivered can name.
KnownCommands == { <<"h", "e", "l", "p">> }

\* command = content.slice(prefix.length) ... args.shift()
commandOf(text, prefix) == SubSeq(text, Len(prefix) + 1, Len(text))

\* The message of an event that carries none.
NoMessage ==
    [guild |-> NullText, author |-> NullText, perm |-> "member", bot |-> FALSE,
     text |-> <<>>, content |-> [chars |-> 0, letters |-> 0, upper |-> 0, url |-> FALSE]]

\* A handler that has just been called.
Handler(event, guildId, m, pc) ==
    [event |-> event, guild |-> guildId, message |-> m, pc |-> pc,
     settings |-> NoSettings, cause |-> "none", route |-> "none"]

\* The handler ended with a rejected promise: an awaited call threw and no
\* try block of the handler encloses it.
rejected(e, cause) == [e EXCEPT !.pc = "threw", !.cause = cause]

\* MessageCreate arrives: the handler returns at once for a bot's message and
\* otherwise awaits database.getGuildSettings.
MessageCreate(m) ==
    /\ Len(events) < MaxEvents
    /\ events' = Append(events,
                        Handler("MessageCreate", m.guild, m,
                                IF m.bot THEN "done" ELSE "getGuildSettings"))
    /\ UNCHANGED <<settingsRows, automod_logs, outcome, cmdRun>>

\* GuildCreate arrives: the handler awaits database.createGuildSettings.
GuildCreate(g) ==
    /\ Len(events) < MaxEvents
    /\ events' = Append(events, Handler("GuildCreate", g, NoMessage, "createGuildSettings"))
    /\ UNCHANGED <<settingsRows, automod_logs, outcome, cmdRun>>

\* const settings = await database.getGuildSettings(message.guild.id)
GetGuildSettings(i, fail) ==
    LET e == events[i]
        settings == getGuildSettings(settingsRows, e.guild)
    IN /\ e.pc = "getGuildSettings"
       /\ events' = [events EXCEPT ![i] =
              IF fail THEN rejected(e, "database read")
              ELSE [e EXCEPT !.settings = settings,
                             !.pc = IF DOMAIN settings = {}
                                    THEN "createGuildSettings" ELSE "dispatch"]]
       /\ UNCHANGED <<settingsRows, automod_logs, outcome, cmdRun>>

\* await database.createGuildSettings(guild.id), of either handler
CreateGuildSettings(i, fail) ==
    LET e == events[i]
    IN /\ e.pc = "createGuildSettings"
       /\ IF fail
          THEN /\ events' = [events EXCEPT ![i] = rejected(e, "database write")]
               /\ UNCHANGED settingsRows
          ELSE /\ settingsRows' = createGuildSettings(settingsRows, e.guild)
               /\ events' = [events EXCEPT ![i].pc =
                      IF e.event = "GuildCreate" THEN "done" ELSE "dispatch"]
       /\ UNCHANGED <<automod_logs, outcome, cmdRun>>

\* The calls of handleCommand and of help that can throw: the settings read,
\* the reply.
DispatchFails == {"none", "database read", "message.reply"}

\* What threw inside filterMessage.
filterCause(failAt) ==
    CASE failAt = "delete" -> "message.delete"
      [] failAt = "send" -> "author.send"
      [] failAt = "db" -> "database write"
      [] OTHER -> "detector"

\* The rest of the MessageCreate handler, with the settings it read at its
\* start: filterMessage for a message that does not start with the prefix,
\* handleCommand for one that does.
Dispatch(i, fail, failAt) ==
    LET e == events[i]
        prefix == IF DOMAIN e.settings # {} /\ e.settings.prefix # <<>>
                  THEN e.settings.prefix ELSE defaultPrefix
    IN /\ e.pc = "dispatch"
       /\ IF ~startsWith(e.message.text, prefix)
          THEN /\ fail = "none"
               /\ filterMessage(e.message, e.settings, failAt)
               /\ events' = [events EXCEPT ![i] =
                      IF outcome'.threw
                      THEN [rejected(e, filterCause(failAt)) EXCEPT !.route = "filterMessage"]
                      ELSE [e EXCEPT !.pc = "done", !.route = "filterMessage"]]
               /\ UNCHANGED <<settingsRows, cmdRun>>
          ELSE /\ failAt = "none"
               /\ fail \in DispatchFails
               /\ IF fail = "database read"
                  THEN /\ events' = [events EXCEPT ![i] =
                              [rejected(e, fail) EXCEPT !.route = "handleCommand"]]
                       /\ UNCHANGED cmdRun
                  ELSE IF commandOf(e.message.text, prefix) \notin KnownCommands
                  THEN /\ fail = "none"
                       /\ events' = [events EXCEPT ![i] =
                              [e EXCEPT !.pc = "done", !.route = "handleCommand"]]
                       /\ UNCHANGED cmdRun
                  ELSE IF fail = "message.reply"
                  THEN /\ events' = [events EXCEPT ![i] =
                              [rejected(e, fail) EXCEPT !.route = "handleCommand"]]
                       /\ cmdRun' = Threw("standalone", "help")
                  ELSE /\ events' = [events EXCEPT ![i] =
                              [e EXCEPT !.pc = "done", !.route = "handleCommand"]]
                       /\ help("standalone", e.guild, e.message.author)
               /\ UNCHANGED <<settingsRows, automod_logs, outcome>>

-----------------------------------------------------------------------------
(* The ticket system: ticketSystem.createTicket and closeTicket of the
   standalone bot; ticketHandler of the handler module has the same code.
   createTicket is an async function: it runs up to its next await, and other
   interactions are handled in between. *)

\* Math.floor(Math.random() * 10000), over a smaller range
TicketNumbers == 0..MaxTicketNumber

\* The members who press the ticket buttons.
TicketUsers == {"u1"}

\* database.getUserOpenTickets(guildId, userId)
getUserOpenTickets(tbl, guildId, userId) ==
    SelectSeq(tbl, LAMBDA r : r.guild_id = guildId /\ r.user_id = userId
                                /\ r.status = "open")

\* tickets.ticket_id is UNIQUE: an INSERT of an id the table holds is rejected
ticketIdTaken(tbl, ticketId) == \E i \in 1..Len(tbl) : tbl[i].ticket_id = ticketId

\* database.createTicket(ticketData); status defaults to 'open'
createTicket(tbl, ticketData) ==
    Append(tbl, [ticket_id |-> ticketData.ticketId, guild_id |-> ticketData.guildId,
                 channel_id |-> ticketData.channelId, user_id |-> ticketData.userId,
                 status |-> "open"])

\* database.getTicketByChannel(channelId): the open tickets of the channel
getTicketByChannel(tbl, channelId) ==
    SelectSeq(tbl, LAMBDA r : r.channel_id = channelId /\ r.status = "open")

\* database.closeTicket(ticketId, closedBy, transcript)
closeTicket(tbl, ticketId) ==
    [i \in 1..Len(tbl) |->
        IF tbl[i].ticket_id = ticketId THEN [tbl[i] EXCEPT !.status = "closed"]
        ELSE tbl[i]]

AlreadyOpen == "You already have an open ticket."
TicketError == "An error occurred while creating the ticket."
TicketCreated == "Ticket created"

\* A createTicket call that has deferred its reply and read the settings.
Create(g, u) ==
    [guild |-> g, user |-> u, pc |-> "getUserOpenTickets",
     support_role_id |-> guild_settings[g].support_role_id,
     ticket_log_channel_id |-> guild_settings[g].ticket_log_channel_id,
     ticketNumber |-> NULL, channel |-> NULL, reply |-> "none"]

\* The catch block: the error is logged to the console and the reply edited.
caught(c) == [c EXCEPT !.pc = "done", !.reply = TicketError]

\* An await outside the try block threw: the call ends with a rejected promise.
uncaught(c) == [c EXCEPT !.pc = "threw"]

\* createTicket is called: interaction.deferReply, database.getGuildSettings
CreateTicketBegin(g, u, fail) ==
    /\ Len(creates) < MaxCreates
    /\ creates' = Append(creates, IF fail THEN uncaught(Create(g, u)) ELSE Create(g, u))
    /\ UNCHANGED <<tickets, channels>>

\* existingTickets = await database.getUserOpenTickets(...), the early return,
\* and the draw of the ticket number
CheckOpenTickets(i, n, fail) ==
    LET c == creates[i]
    IN /\ c.pc = "getUserOpenTickets"
       /\ creates' = [creates EXCEPT ![i] =
              IF fail THEN uncaught(c)
              ELSE IF Len(getUserOpenTickets(tickets, c.guild, c.user)) > 0
              THEN [c EXCEPT !.pc = "done", !.reply = AlreadyOpen]
              ELSE [c EXCEPT !.pc = "channels.create", !.ticketNumber = n]]
       /\ UNCHANGED <<tickets, channels>>

\* channel = await guild.channels.create(...)
CreateChannel(i, fail) ==
    LET c == creates[i]
    IN /\ c.pc = "channels.create"
       /\ IF fail
          THEN creates' = [creates EXCEPT ![i] = caught(c)] /\ UNCHANGED channels
          ELSE /\ channels' = Append(channels, [guild |-> c.guild, user |-> c.user,
                                                closing |-> FALSE, deleted |-> FALSE])
               /\ creates' = [creates EXCEPT ![i] =
                      [c EXCEPT !.channel = Len(channels) + 1,
                                !.pc = IF c.support_role_id # NullText
                                       THEN "permissionOverwrites.create"
                                       ELSE "createTicket"]]
       /\ UNCHANGED tickets

\* await channel.permissionOverwrites.create(settings.support_role_id, ...)
GrantSupportRole(i, fail) ==
    LET c == creates[i]
    IN /\ c.pc = "permissionOverwrites.create"
       /\ creates' = [creates EXCEPT ![i] =
              IF fail THEN caught(c) ELSE [c EXCEPT !.pc = "createTicket"]]
       /\ UNCHANGED <<tickets, channels>>

\* await database.createTicket({ticketId, guildId, channelId, userId})
InsertTicket(i, fail) ==
    LET c == creates[i]
    IN /\ c.pc = "createTicket"
       /\ IF fail \/ ticketIdTaken(tickets, c.ticketNumber)
          THEN creates' = [creates EXCEPT ![i] = caught(c)] /\ UNCHANGED tickets
          ELSE /\ tickets' = createTicket(tickets,
                                 [ticketId |-> c.ticketNumber, guildId |-> c.guild,
                                  channelId |-> c.channel, userId |-> c.user])
               /\ creates' = [creates EXCEPT ![i].pc = "channel.send"]
       /\ UNCHANGED channels

\* The awaits after the insert: the welcome message, the confirmation, the
\* message to the ticket log channel when one is configured.
WelcomeFails(c) ==
    {"none", "channel.send", "editReply"}
        \cup (IF c.ticket_log_channel_id # NullText THEN {"logChannel.send"} ELSE {})

Welcome(i, fail) ==
    LET c == creates[i]
    IN /\ c.pc = "channel.send"
       /\ fail \in WelcomeFails(c)
       /\ creates' = [creates EXCEPT ![i] =
              IF fail = "none" THEN [c EXCEPT !.pc = "done", !.reply = TicketCreated]
              ELSE caught(c)]
       /\ UNCHANGED <<tickets, channels>>

\* closeTicket in a channel: the open ticket of the channel is closed and the
\* channel's deletion scheduled; without such a ticket nothing changes.
CloseTicket(ch) ==
    /\ ~channels[ch].deleted
    /\ getTicketByChannel(tickets, ch) # <<>>
    /\ tickets' = closeTicket(tickets, getTicketByChannel(tickets, ch)[1].ticket_id)
    /\ channels' = [channels EXCEPT ![ch].closing = TRUE]
    /\ UNCHANGED creates

\* The timer closeTicket set fires: channel.delete()
DeleteChannel(ch) ==
    /\ channels[ch].closing /\ ~channels[ch].deleted
    /\ channels' = [channels EXCEPT ![ch].deleted = TRUE]
    /\ UNCHANGED <<tickets, creates>>

-----------------------------------------------------------------------------
(* Initial states *)

InitLedger ==
    /\ clock = 0
    /\ mutes = <<>>
    /\ extTimeout = [g \in Guilds |-> [u \in Members(g) |-> NULL]]
    /\ lastCmd = NoCmd
    /\ justMuted = NoPair

InitAutoMod ==
    /\ now = 0
    /\ messageCache = EmptyCache
    /\ automod_logs = <<>>
    /\ outcome = NoOutcome
    /\ tally = [u \in Users |-> [sent |-> 0, first |-> 0, limits |-> {}]]
    /\ spamCalls = <<>>

\* No other command has run.
InitCommandsIdle ==
    /\ warnings = <<>>
    /\ bans = <<>>
    /\ cmdRun = NoRun
    /\ cmdCount = 0

\* No ticket has been asked for.
InitTicketsIdle ==
    /\ tickets = <<>>
    /\ channels = <<>>
    /\ creates = <<>>

\* No event is delivered: the table is read through guild_settings, and the
\* handlers' view of its rows is not used.
InitEventsIdle ==
    /\ settingsRows = <<>>
    /\ events = <<>>
    /\ InitTicketsIdle

\* No caps check has been asked for.
InitCapsIdle ==
    /\ capsText = Plain
    /\ capsThreshold = 70
    /\ capsVerdict = NoVerdict

\* The sanction ledger: g1 has a mod-log channel, g2 has none.
InitSanction ==
    /\ guild_settings = [g \in Guilds |->
            DefaultSettings(IF g = "g1" THEN "c1" ELSE NullText)]
    /\ InitLedger
    /\ InitAutoMod
    /\ InitCapsIdle
    /\ InitCommandsIdle
    /\ InitEventsIdle

NextSanction ==
    \/ MuteCmd /\ UNCHANGED outsideLedger
    \/ UnmuteCmd /\ UNCHANGED outsideLedger
    \/ Tick /\ UNCHANGED outsideLedger

SanctionSpec == InitSanction /\ [][NextSanction]_vars

\* Auto-moderation settings: g1 has auto-moderation and the link rule enabled
\* and a mod-log channel, g2 has them disabled and no mod-log channel; each
\* guild has a spam limit of its own.
InitAutoModSettings ==
    \E l1 \in 1..MaxLimit, l2 \in 1..MaxLimit :
        guild_settings = [g \in Guilds |->
            [prefix |-> <<"!">>,
             auto_mod_enabled |-> (g = "g1"),
             auto_mod_spam_limit |-> IF g = "g1" THEN l1 ELSE l2,
             auto_mod_caps_percent |-> 70,
             auto_mod_links_enabled |-> (g = "g1"),
             mod_log_channel_id |-> IF g = "g1" THEN "c1" ELSE NullText]]

InitMessages ==
    /\ InitAutoModSettings /\ InitLedger /\ InitAutoMod /\ InitCapsIdle
    /\ InitCommandsIdle /\ InitEventsIdle

\* The spam window under plain traffic.
NextSpam ==
    \/ Sent < MaxSpamMsgs /\ CheckPlainMessage /\ UNCHANGED outsideAutoMod
    \/ AdvanceNow /\ UNCHANGED outsideAutoMod

SpamSpec == InitMessages /\ [][NextSpam]_vars

\* The spam window under plain traffic whose checks interleave at the await
\* of handleViolation.
NextSpamRace ==
    \/ /\ Sent < MaxSpamMsgs
       /\ \E m \in Messages :
             /\ m.content = Plain /\ m.perm = "member" /\ ~m.bot /\ m.author = "u1"
             /\ checkSpamBegin(m)
       /\ UNCHANGED outsideSpamCalls
    \/ \E i \in DOMAIN spamCalls, failAt \in FailAts :
          checkSpamResume(i, failAt) /\ UNCHANGED outsideSpamCalls
    \/ AdvanceNow /\ UNCHANGED outsideAutoMod

SpamRaceSpec == InitMessages /\ [][NextSpamRace]_vars

\* Both auto-moderation entry points under every kind of message, all of them
\* arriving within the same millisecond.
NextAutoMod ==
    \/ Sent < MaxMsgs /\ CheckMessage /\ UNCHANGED outsideAutoMod
    \/ Sent < MaxMsgs /\ FilterMessage /\ UNCHANGED outsideAutoMod

AutoModSpec == InitMessages /\ [][NextAutoMod]_vars

\* The same, with the wall clock bound to advance.
FairSanctionSpec == SanctionSpec /\ WF_vars(Tick /\ UNCHANGED outsideLedger)

\* The caps checks on every text and threshold.
InitCaps ==
    /\ guild_settings = [g \in Guilds |-> DefaultSettings(NullText)]
    /\ InitLedger
    /\ InitAutoMod
    /\ capsText \in Texts
    /\ capsThreshold \in Thresholds
    /\ capsVerdict = NoVerdict
    /\ InitCommandsIdle
    /\ InitEventsIdle

NextCaps ==
    \/ RunCheckCaps /\ UNCHANGED outsideCaps
    \/ RunDetectExcessiveCaps /\ UNCHANGED outsideCaps

CapsSpec == InitCaps /\ [][NextCaps]_vars

\* Every command, issued in one guild by members of every permission class.
InitCommands == InitSanction

\* One more command has been handled; the other groups of variables are left
\* alone.
Counted == cmdCount < MaxCmds /\ cmdCount' = cmdCount + 1

otherCommand == Counted /\ UNCHANGED outsideCommands

muteCommand ==
    Counted /\ UNCHANGED <<autoModVars, capsVars, warnings, bans, cmdRun, eventVars,
                           ticketVars, spamCalls>>

NextCommands ==
    \/ WarnCmd /\ otherCommand
    \/ WarningsCmd /\ otherCommand
    \/ ClearWarningsCmd /\ otherCommand
    \/ MuteByCmd /\ muteCommand
    \/ UnmuteByCmd /\ muteCommand
    \/ KickCmd /\ otherCommand
    \/ BanCmd /\ otherCommand
    \/ UnbanCmd /\ otherCommand
    \/ PurgeCmd /\ otherCommand
    \/ SetPrefixCmd /\ otherCommand
    \/ SetupCmd /\ otherCommand
    \/ HelpCmd /\ otherCommand

CommandSpec == InitCommands /\ [][NextCommands]_vars

\* The event handlers: g1 has a row with auto-moderation enabled, g2 is a
\* guild the bot has no row for.
InitEvents ==
    /\ guild_settings = [g \in Guilds |-> DefaultSettings(NullText)]
    /\ InitLedger
    /\ InitAutoMod
    /\ InitCapsIdle
    /\ InitCommandsIdle
    /\ settingsRows =
          << SettingsRow("g1", [DefaultSettings(NullText) EXCEPT !.auto_mod_enabled = TRUE]) >>
    /\ events = <<>>
    /\ InitTicketsIdle

NextEvents ==
    \/ \E m \in EventMessages : MessageCreate(m) /\ UNCHANGED outsideEvents
    \/ \E g \in Guilds : GuildCreate(g) /\ UNCHANGED outsideEvents
    \/ \E i \in DOMAIN events, fail \in BOOLEAN :
          GetGuildSettings(i, fail) /\ UNCHANGED outsideEvents
    \/ \E i \in DOMAIN events, fail \in BOOLEAN :
          CreateGuildSettings(i, fail) /\ UNCHANGED outsideEvents
    \/ \E i \in DOMAIN events, fail \in DispatchFails, failAt \in FilterFailAts :
          Dispatch(i, fail, failAt) /\ UNCHANGED outsideEvents

EventSpec == InitEvents /\ [][NextEvents]_vars

\* The ticket system: g1 has a support role and a ticket log channel, g2 has
\* neither.
TicketSettings(g) ==
    [prefix |-> <<"!">>,
     auto_mod_enabled |-> FALSE,
     auto_mod_spam_limit |-> 5,
     auto_mod_caps_percent |-> 70,
     auto_mod_links_enabled |-> FALSE,
     mod_log_channel_id |-> NullText,
     support_role_id |-> IF g = "g1" THEN "r1" ELSE NullText,
     ticket_log_channel_id |-> IF g = "g1" THEN "c2" ELSE NullText]

InitTickets ==
    /\ guild_settings = [g \in Guilds |-> TicketSettings(g)]
    /\ InitLedger
    /\ InitAutoMod
    /\ InitCapsIdle
    /\ InitCommandsIdle
    /\ settingsRows = <<>>
    /\ events = <<>>
    /\ InitTicketsIdle

NextTickets ==
    \/ \E g \in Guilds, u \in TicketUsers, fail \in BOOLEAN :
          CreateTicketBegin(g, u, fail) /\ UNCHANGED outsideTickets
    \/ \E i \in DOMAIN creates, n \in TicketNumbers, fail \in BOOLEAN :
          CheckOpenTickets(i, n, fail) /\ UNCHANGED outsideTickets
    \/ \E i \in DOMAIN creates, fail \in BOOLEAN :
          CreateChannel(i, fail) /\ UNCHANGED outsideTickets
    \/ \E i \in DOMAIN creates, fail \in BOOLEAN :
          GrantSupportRole(i, fail) /\ UNCHANGED outsideTickets
    \/ \E i \in DOMAIN creates, fail \in BOOLEAN :
          InsertTicket(i, fail) /\ UNCHANGED outsideTickets
    \/ \E i \in DOMAIN creates, fail \in {"none", "channel.send", "editReply", "logChannel.send"} :
          Welcome(i, fail) /\ UNCHANGED outsideTickets
    \/ \E ch \in DOMAIN channels : CloseTicket(ch) /\ UNCHANGED outsideTickets
    \/ \E ch \in DOMAIN channels : DeleteChannel(ch) /\ UNCHANGED outsideTickets

TicketSpec == InitTickets /\ [][NextTickets]_vars

-----------------------------------------------------------------------------
(* Properties of the sanction ledger *)

\* A mute / unmute command that got as far as naming a member, as a step.
MuteOf(g, u, durationStr) ==
    \E issuer \in Issuers, fail \in FailPoints(g) : mute(g, issuer, u, durationStr, fail)

UnmuteOf(g, u) ==
    \E issuer \in Issuers, fail \in FailPoints(g) : unmute(g, issuer, u, fail)

\* The row a step has appended to the mutes table.
NewRow == mutes'[Len(mutes')]

\* C2: in every reachable state of the mutes table there is at most one active
\* row for each (guild_id, user_id) pair.
C2_OneActivePerPair ==
    \A g \in Guilds : \A u \in Members(g) :
        Cardinality(ActiveRows(mutes, g, u)) <= 1

\* C3: every active row with a non-null expires_at that the wall clock has
\* passed eventually becomes inactive (no moderator command is needed).
C3_ExpiredMuteIsLifted ==
    \A i \in 1..MaxMutes :
        (/\ i <= Len(mutes)
         /\ mutes[i].active
         /\ mutes[i].expires_at # NULL
         /\ clock > mutes[i].expires_at)
            ~> (i <= Len(mutes) /\ ~mutes[i].active)

\* C6: a mute command that replies "Failed to mute user." has written no row
\* to the mutes table, whichever step failed.
C6_FailedMuteWritesNoRow ==
    [][(MuteCmd /\ lastCmd'.reply = "Failed to mute user.") => mutes' = mutes]_vars

\* C7: an unmute command that replies "Failed to unmute user." leaves the
\* mutes table unchanged.
C7_FailedUnmuteKeepsLedger ==
    [][(UnmuteCmd /\ lastCmd'.reply = "Failed to unmute user.") => mutes' = mutes]_vars

\* C8: a successful unmute that follows a successful mute of the same member in
\* the same guild leaves the pair no active row and the member no timeout,
\* however many active rows the pair had.
C8_MuteThenUnmuteClears ==
    [][\A g \in Guilds : \A u \in Members(g) :
          (justMuted = <<g, u>> /\ lastCmd'.reply = "Unmuted" /\ UnmuteOf(g, u))
            => /\ ActiveRows(mutes', g, u) = {}
               /\ extTimeout'[g][u] = NULL]_vars

\* A successful unmute has directly followed a successful mute of a pair that
\* already had an active row: two rows were active, none is, no timeout is left.
C8_Witness ==
    /\ lastCmd.cmd = "unmute"
    /\ lastCmd.reply = "Unmuted"
    /\ lastCmd.afterMute >= 2
    /\ \E g \in Guilds : \E u \in Members(g) :
          /\ ActiveRows(mutes, g, u) = {}
          /\ extTimeout[g][u] = NULL
          /\ Cardinality({i \in DOMAIN mutes :
                mutes[i].guild_id = g /\ mutes[i].user_id = u}) >= 2

\* C9: a successful mute with a duration argument matching [0-9]+[mhd] times
\* the member out for exactly value x unit and writes one active row whose
\* expires_at is the command time plus that same duration.
C9_TimeoutMatchesExpiry ==
    [][\A g \in Guilds : \A u \in Members(g) : \A d \in DurationArgs :
          (durationMatch(d) /\ MuteOf(g, u, d) /\ lastCmd'.reply = "User Muted")
            => /\ extTimeout'[g][u] = muteDuration(d)
               /\ Len(mutes') = Len(mutes) + 1
               /\ NewRow.active
               /\ NewRow.expires_at = clock + muteDuration(d)]_vars

\* C10: a successful mute without a duration argument times the member out
\* for 28 days and writes one active row with expires_at = NULL.
C10_NoDurationIsPermanent ==
    [][\A g \in Guilds : \A u \in Members(g) :
          (lastCmd'.reply = "User Muted" /\ MuteOf(g, u, <<>>))
            => /\ extTimeout'[g][u] = 28 * 24 * 60 * 60
               /\ Len(mutes') = Len(mutes) + 1
               /\ NewRow.guild_id = g /\ NewRow.user_id = u
               /\ NewRow.expires_at = NULL
               /\ NewRow.active]_vars

\* A mute without a duration has just succeeded: its row is the last one, active
\* and without expiry, and the member is timed out for 28 days.
C10_Witness ==
    /\ lastCmd.cmd = "mute"
    /\ lastCmd.reply = "User Muted"
    /\ Len(mutes) >= 1
    /\ <<mutes[Len(mutes)].guild_id, mutes[Len(mutes)].user_id>> = justMuted
    /\ mutes[Len(mutes)].expires_at = NULL
    /\ mutes[Len(mutes)].active
    /\ extTimeout[justMuted[1]][justMuted[2]] = 28 * 24 * 60 * 60


\* C23: the number of rows of the mutes table never decreases, and the only
\* change a step makes to an existing row is active going from true to false.
C23_MutesAreAppendOnly ==
    [][/\ Len(mutes') >= Len(mutes)
       /\ \A i \in DOMAIN mutes :
             \/ mutes'[i] = mutes[i]
             \/ mutes[i].active /\ mutes'[i] = [mutes[i] EXCEPT !.active = FALSE]]_vars

\* The table holds a row an unmute has deactivated and a row added after it.
C23_Witness ==
    \E i, j \in DOMAIN mutes : i < j /\ ~mutes[i].active /\ mutes[j].active

-----------------------------------------------------------------------------
(* Properties of auto-moderation *)

\* A step in which checkMessage handles message m.
CheckOf(m) == \E failAt \in FailAts : checkMessage(m, failAt)

\* A step in which either entry point handles message m.
HandledBy(m) ==
    \/ \E failAt \in FailAts : checkMessage(m, failAt)
    \/ \E failAt \in FilterFailAts : filterMessage(m, guild_settings[m.guild], failAt)

\* All the checkSpam calls made for user u, the one of this step included,
\* fall inside one window and ran under the one spam limit L.
OneWindow(u, L) ==
    /\ now - tally'[u].first < timeWindow
    /\ tally'[u].limits = {L}

\* C1: when one user's messages are checked one after the other inside one
\* spam window under a spam limit L, the spam check reports a violation at
\* exactly every L-th message and at no other; the stored window is empty
\* after a violation and holds the messages since the last one otherwise.
C1_SpamTripsAtEveryLth ==
    [][\A m \in Messages :
        LET u == m.author
            L == guild_settings[m.guild].auto_mod_spam_limit
            k == tally'[u].sent
        IN (OneWindow(u, L) /\ CheckOf(m)) =>
            /\ (outcome'.rule = "Spam detected") <=> (k % L = 0)
            /\ messageCache'[u].count = k % L
            /\ Len(messageCache'[u].timestamps) = k % L]_vars

\* A user has sent twice the limit (of at least 2) inside one window, the
\* last message has just tripped, and the stored window is empty.
C1_Witness ==
    \E u \in Users, L \in 2..MaxLimit :
        /\ tally[u].sent = 2 * L
        /\ tally[u].limits = {L}
        /\ now - tally[u].first < timeWindow
        /\ outcome.rule = "Spam detected"
        /\ u \in DOMAIN messageCache
        /\ messageCache[u].timestamps = <<>>

\* C4: while a guild's auto_mod_enabled is false, neither filterMessage nor
\* checkMessage deletes a message, sends a notice or writes an automod_logs
\* row for a message in that guild.
C4_DisabledGuildIsLeftAlone ==
    [][\A m \in Messages :
        (HandledBy(m) /\ ~guild_settings[m.guild].auto_mod_enabled) =>
            /\ automod_logs' = automod_logs
            /\ ~outcome'.deleted
            /\ ~outcome'.notice
            /\ ~outcome'.modLog]_vars

\* C5: for a message whose author holds Administrator or ModerateMembers,
\* neither filterMessage nor checkMessage evaluates a rule, deletes the
\* message or writes an automod_logs row, and the author's spam window is not
\* updated.
C5_PrivilegedAuthorIsExempt ==
    [][\A m \in Messages :
        (HandledBy(m) /\ m.perm \in {"administrator", "moderator"}) =>
            /\ automod_logs' = automod_logs
            /\ ~outcome'.deleted
            /\ outcome'.rule \in {"exempt", "disabled", "bot"}
            /\ messageCache' = messageCache]_vars

\* C11: a mute whose duration argument does not match [0-9]+[mhd] is rejected:
\* the external timeout is not called and no mutes row is written.
C11_MalformedDurationIsRejected ==
    [][\A g \in Guilds : \A u \in Members(g) : \A d \in DurationArgs :
          (d # <<>> /\ ~durationMatch(d) /\ MuteOf(g, u, d))
            => /\ extTimeout' = extTimeout
               /\ mutes' = mutes]_vars

\* The verdict checkSpam would give, in state `cache`, to a message the user
\* sends now in guild g.
nextSpamVerdict(cache, userId, g) ==
    spamTripped(userDataOf(cache, userId), now, guild_settings[g].auto_mod_spam_limit)

\* C12: the spam window is kept per (server, user): handling a message a user
\* sends in one guild never changes the verdict the user's next message in
\* another guild gets.
C12_SpamWindowIsPerGuild ==
    [][\A m \in Messages : \A g \in Guilds \ {m.guild} :
          CheckOf(m) =>
            (nextSpamVerdict(messageCache', m.author, g)
                <=> nextSpamVerdict(messageCache, m.author, g))]_vars

\* C17: a row with expires_at = NULL that is active goes inactive only in a
\* step of an unmute command for the row's (guild, user) pair; no other step,
\* the passing of time included, deactivates it.
C17_PermanentMuteOnlyLiftedByUnmute ==
    [][\A i \in DOMAIN mutes :
          (mutes[i].expires_at = NULL /\ mutes[i].active /\ ~mutes'[i].active)
            => UnmuteOf(mutes[i].guild_id, mutes[i].user_id)]_vars

\* Time has passed since a permanent mute was written, an unmute for another
\* guild has succeeded, and the permanent row is still active.
C17_Witness ==
    /\ clock > 0
    /\ lastCmd.cmd = "unmute" /\ lastCmd.reply = "Unmuted"
    /\ \E i \in DOMAIN mutes :
          /\ mutes[i].expires_at = NULL /\ mutes[i].active
          /\ extTimeout[mutes[i].guild_id][mutes[i].user_id] # NULL
          /\ \E j \in DOMAIN mutes :
                mutes[j].guild_id # mutes[i].guild_id /\ ~mutes[j].active

\* C19: in the standalone bot, when the guild has auto-moderation enabled and
\* a non-bot author without Administrator or ModerateMembers sends a message of
\* at least 5 characters whose uppercase share exceeds the caps threshold,
\* filterMessage deletes the message and writes an EXCESSIVE_CAPS row.
C19_FilterMessageEnforcesCaps ==
    [][\A m \in Messages :
          LET settings == guild_settings[m.guild]
          IN (/\ settings.auto_mod_enabled
              /\ ~m.bot /\ m.perm = "member"
              /\ m.content.chars >= 5
              /\ m.content.upper * 100 > settings.auto_mod_caps_percent * m.content.chars
              /\ \E failAt \in FilterFailAts : filterMessage(m, guild_settings[m.guild], failAt))
             => /\ outcome'.deleted
                /\ automod_logs' = logAutoMod(automod_logs, m.guild, m.author,
                                              "EXCESSIVE_CAPS",
                                              "Too many capital letters")]_vars
\* The reference algorithm's window: the entries at most timeWindow old, then
\* now.
referenceWindow(userData, t) ==
    Append(SelectSeq(userData.timestamps, LAMBDA ts : t - ts <= timeWindow), t)

\* C25: for every stored list, now and limit, checkSpam returns the verdict of
\* the reference algorithm and leaves the list it leaves: drop exactly the
\* entries with now - ts > timeWindow, append now, and if the count reaches
\* the limit empty the list and report spam, else keep the list.
C25_CheckSpamMatchesReference ==
    [][\A m \in Messages :
        LET u == m.author
            L == guild_settings[m.guild].auto_mod_spam_limit
            window == referenceWindow(userDataOf(messageCache, u), now)
        IN (tally'[u].sent = tally[u].sent + 1 /\ CheckOf(m)) =>
            /\ (outcome'.rule = "Spam detected") <=> (Len(window) >= L)
            /\ messageCache'[u].timestamps =
                 IF Len(window) >= L THEN <<>> ELSE window]_vars

\* A step in which filterMessage examines message m: the guild has
\* auto-moderation enabled and the author is neither a bot nor exempt.
FilterOf(m) ==
    /\ guild_settings[m.guild].auto_mod_enabled
    /\ ~m.bot /\ m.perm = "member"
    /\ \E failAt \in FilterFailAts : filterMessage(m, guild_settings[m.guild], failAt)

\* C26: the rules are evaluated in the order spam, caps, links and evaluation
\* stops at the first match: a step writes at most one automod_logs row, a
\* message that matches an earlier and a later rule is reported under the
\* earlier one, and a message is reported under the link rule only in a guild
\* whose auto_mod_links_enabled is true; in checkMessage and in filterMessage.
C26_FirstMatchingRuleWins ==
    [][\A m \in Messages :
        LET settings == guild_settings[m.guild]
            tripped == spamTripped(userDataOf(messageCache, m.author), now,
                                   settings.auto_mod_spam_limit)
        IN /\ CheckOf(m) =>
                /\ Len(automod_logs') <= Len(automod_logs) + 1
                /\ tripped => outcome'.rule = "Spam detected"
                /\ (~tripped /\ checkCaps(m.content, settings))
                        => outcome'.rule = "Excessive caps usage"
                /\ outcome'.rule = "Unauthorized link posting"
                        => settings.auto_mod_links_enabled
           /\ FilterOf(m) =>
                /\ Len(automod_logs') <= Len(automod_logs) + 1
                /\ (/\ detectExcessiveCaps(m.content, settings.auto_mod_caps_percent)
                    /\ settings.auto_mod_links_enabled
                    /\ detectSuspiciousLinks(m.content))
                        => outcome'.rule \in {"SPAM", "EXCESSIVE_CAPS"}
                /\ outcome'.rule = "LINK_DETECTED"
                        => settings.auto_mod_links_enabled]_vars

\* C27: an automod_logs row is written for a message only after the message
\* was deleted: a step of checkMessage or filterMessage in which the deletion
\* did not succeed writes no row and sends no notice.
C27_NoLogWithoutDeletion ==
    [][~outcome'.deleted =>
          /\ automod_logs' = automod_logs
          /\ ~outcome'.logged
          /\ ~outcome'.notice]_vars

\* message.delete() failed in handleViolation for a message that matched the
\* caps rule, and the log is empty.
C27_Witness ==
    /\ outcome.entry = "checkMessage"
    /\ outcome.rule = "Excessive caps usage"
    /\ ~outcome.deleted
    /\ automod_logs = <<>>


\* The spam violations raised so far for user u.
spamActions(u) ==
    Len(SelectSeq(spamCalls, LAMBDA call : call.message.author = u))

\* C24: a message that arrives while the enforcement of a spam trip is in
\* progress does not trigger a second spam violation: under a spam limit L of
\* at least 2, a burst of up to L + 1 messages of one user produces at most
\* one spam action.
C24_OneActionPerBurst ==
    \A u \in Users : \A L \in 2..MaxLimit :
        (/\ tally[u].limits = {L}
         /\ tally[u].sent <= L + 1
         /\ now - tally[u].first < timeWindow)
            => spamActions(u) <= 1

-----------------------------------------------------------------------------
(* Properties of the caps checks *)

\* C20: for every text shorter than 5 characters and every threshold, 0
\* included, checkCaps and detectExcessiveCaps both return false.
C20_ShortTextIsNeverCaps ==
    (capsText.chars < 5 /\ capsVerdict.check # "none") => ~capsVerdict.flagged

\* A check has run on an all-uppercase text of 4 characters under threshold 0
\* and returned false.
C20_Witness ==
    /\ capsText.chars = 4 /\ capsText.upper = 4
    /\ capsThreshold = 0
    /\ capsVerdict.check = "detectExcessiveCaps"
    /\ ~capsVerdict.flagged

\* C21: for a text of at least 5 characters with U uppercase letters among T
\* letters among C characters and a threshold P in 1..100, a caps check flags
\* the text whenever 100*U > P*C and does not flag it whenever 100*U < P*T,
\* whichever of checkCaps and detectExcessiveCaps it is.
C21_CapsChecksAgreeOutsideTheBand ==
    (capsVerdict.check # "none" /\ capsText.chars >= 5 /\ capsThreshold \in 1..100)
        => /\ 100 * capsText.upper > capsThreshold * capsText.chars
                => capsVerdict.flagged
           /\ 100 * capsText.upper < capsThreshold * capsText.letters
                => ~capsVerdict.flagged

\* detectExcessiveCaps has flagged a text that holds characters other than
\* letters and lies above the band.
C21_Witness ==
    /\ capsVerdict = [check |-> "detectExcessiveCaps", flagged |-> TRUE]
    /\ capsText.chars >= 5 /\ capsText.letters < capsText.chars
    /\ capsThreshold \in 1..100
    /\ 100 * capsText.upper > capsThreshold * capsText.chars

-----------------------------------------------------------------------------
(* Properties of the commands *)

GuardedCommands ==
    {"warn", "warnings", "clearwarnings", "mute", "unmute", "kick", "ban",
     "unban", "purge", "setprefix", "setup"}

\* The permission each command asks of the invoking member.
Required(cmd) ==
    CASE cmd \in {"warn", "warnings", "clearwarnings", "mute", "unmute"} -> "ModerateMembers"
      [] cmd = "kick" -> "KickMembers"
      [] cmd \in {"ban", "unban"} -> "BanMembers"
      [] cmd = "purge" -> "ManageMessages"
      [] cmd \in {"setprefix", "setup"} -> "Administrator"

\* A step of the command in the variant: it recorded the command and left
\* everything outside the command handlers alone.
CommandFrame(cmd, v) ==
    IF cmd \in {"mute", "unmute"}
    THEN lastCmd'.cmd = cmd /\ cmdRun' = cmdRun /\ muteCommand
    ELSE cmdRun'.cmd = cmd /\ cmdRun'.variant = v /\ otherCommand

\* The step handles the command for the issuer, whatever its arguments and
\* whichever call fails.
CommandStep(cmd, v, issuer) ==
       CASE cmd = "warn" ->
               \E target \in MentionArgs, fail \in CmdFails(CmdGuild) :
                   warn(v, CmdGuild, issuer, target, fail)
         [] cmd = "warnings" ->
               \E target \in MentionArgs : getWarnings(v, CmdGuild, issuer, target)
         [] cmd = "clearwarnings" ->
               \E target \in MentionArgs, fail \in CmdFails(CmdGuild) :
                   clearWarningsCmd(v, CmdGuild, issuer, target, fail)
         [] cmd = "mute" ->
               \E target \in MentionArgs :
                   mute(CmdGuild, asIssuer(issuer), target, <<>>, "none")
         [] cmd = "unmute" ->
               \E target \in MentionArgs :
                   unmute(CmdGuild, asIssuer(issuer), target, "none")
         [] cmd = "kick" ->
               \E target \in MentionArgs, fail \in CmdFails(CmdGuild) :
                   kick(v, CmdGuild, issuer, target, fail)
         [] cmd = "ban" ->
               \E target \in MentionArgs, fail \in CmdFails(CmdGuild) :
                   ban(v, CmdGuild, issuer, target, fail)
         [] cmd = "unban" ->
               \E hasArg \in BOOLEAN, fail \in CmdFails(CmdGuild) :
                   unban(v, CmdGuild, issuer, hasArg, fail)
         [] cmd = "purge" ->
               \E arg \in PurgeArgs, fail \in CmdFails(CmdGuild) :
                   purge(v, CmdGuild, issuer, arg, fail)
         [] cmd = "setprefix" ->
               \E newPrefix \in PrefixArgs, fail \in CmdFails(CmdGuild) :
                   setPrefix(v, CmdGuild, issuer, newPrefix, fail)
         [] cmd = "setup" -> setup(v, CmdGuild, issuer)

\* The step replied with the denial message, wrote to no table and made no
\* external moderation call.
DeniedWithoutEffect(cmd) ==
    /\ IF cmd \in {"mute", "unmute"}
       THEN lastCmd'.reply = Denial /\ cmdRun' = cmdRun
       ELSE cmdRun'.reply = Denial /\ cmdRun'.calls = {} /\ cmdRun'.deleted = 0
    /\ warnings' = warnings /\ bans' = bans /\ mutes' = mutes
    /\ guild_settings' = guild_settings
    /\ extTimeout' = extTimeout

\* C14: each of warn, warnings, clearwarnings, mute, unmute, kick, ban, unban,
\* purge, setprefix and setup, invoked by a member who lacks the command's
\* permission, replies with the denial message and makes no database write and
\* no external moderation call, whatever its arguments.
C14_DeniedCommandDoesNothing ==
    [][\A cmd \in GuardedCommands : \A v \in Variants :
          CommandFrame(cmd, v) =>
              \A issuer \in CmdIssuers :
                  (/\ Required(cmd) \notin issuer.perms
                   /\ "Administrator" \notin issuer.perms
                   /\ CommandStep(cmd, v, issuer))
                    => DeniedWithoutEffect(cmd)]_vars

\* A warning was written by a moderator, then a clearwarnings by a member
\* without the permission was denied and the row is still there.
C14_Witness ==
    /\ cmdCount = 2
    /\ Len(warnings) = 1
    /\ cmdRun.cmd = "clearwarnings"
    /\ cmdRun.reply = Denial

\* The argument is a decimal integer in 1..100.
IsPurgeCount(arg) ==
    /\ arg # <<>>
    /\ \A i \in 1..Len(arg) : arg[i] \in Digits
    /\ parseInt(arg) >= 1 /\ parseInt(arg) <= 100

\* C15: for every purge argument that is not an integer in 1..100 (0,
\* negative, above 100, not a number), purge is rejected before bulkDelete is
\* called: no message is deleted.
C15_PurgeRejectsBadCount ==
    [][\A v \in Variants : \A issuer \in CmdIssuers : \A arg \in PurgeArgs :
          (/\ ~IsPurgeCount(arg)
           /\ cmdRun'.cmd = "purge" /\ otherCommand
           /\ \E fail \in CmdFails(CmdGuild) : purge(v, CmdGuild, issuer, arg, fail))
            => cmdRun'.calls = {} /\ cmdRun'.deleted = 0]_vars

\* C16: setprefix never stores a prefix longer than 5 characters: for every
\* longer argument issued by an administrator, guild_settings.prefix is left
\* unchanged, in the standalone bot and in the handler module.
C16_LongPrefixIsNotStored ==
    [][\A v \in Variants : \A issuer \in CmdIssuers : \A newPrefix \in PrefixArgs :
          (/\ Len(newPrefix) > 5
           /\ "Administrator" \in issuer.perms
           /\ cmdRun'.cmd = "setprefix" /\ otherCommand
           /\ \E fail \in CmdFails(CmdGuild) :
                 setPrefix(v, CmdGuild, issuer, newPrefix, fail))
            => guild_settings' = guild_settings]_vars

-----------------------------------------------------------------------------
(* Properties of the event handlers *)

\* The failures the handler is to contain: of message.delete, of the notice
\* to the author, of a send to the channel, of a database write, and an error
\* raised inside a detector.
ContainedCauses ==
    {"message.delete", "author.send", "message.reply", "database write", "detector"}

\* C13: no failure of an external call made while handling a message
\* (message delete, notice to the author, channel send, database write) and no
\* error raised inside a detector propagates out of the MessageCreate handler:
\* no handler ends with a rejected promise for one of these causes.
C13_MessageHandlerContainsFailures ==
    \A i \in DOMAIN events :
        events[i].event = "MessageCreate"
            => ~(events[i].pc = "threw" /\ events[i].cause \in ContainedCauses)

\* The number of rows guild_settings holds for a guild.
rowCount(g) == Len(rowsOf(settingsRows, g))

\* C18 as stated: under every interleaving of MessageCreate and GuildCreate
\* handlers, guild_settings holds exactly one row for every guild from which
\* an event has been fully handled, and never more than one row per guild.
C18_OneRowPerHandledGuild ==
    /\ \A g \in Guilds : rowCount(g) <= 1
    /\ \A i \in DOMAIN events :
          events[i].pc = "done" => rowCount(events[i].guild) = 1

\* C18 as amended: under every interleaving of MessageCreate and GuildCreate
\* handlers, guild_settings holds exactly one row for every guild from which a
\* GuildCreate event or a MessageCreate event of an author that is not a bot
\* has been fully handled, and never more than one row per guild.
C18_OneRowPerGuildSeenByAMember ==
    /\ \A g \in Guilds : rowCount(g) <= 1
    /\ \A i \in DOMAIN events :
          (events[i].pc = "done" /\ ~events[i].message.bot)
              => rowCount(events[i].guild) = 1

\* Two first messages of the same new guild, both of which read 'no
\* settings' before either inserted, have been fully handled.
C18_Witness ==
    \E i, j \in DOMAIN events :
        /\ i # j
        /\ events[i].guild = events[j].guild
        /\ \A k \in {i, j} :
              /\ events[k].event = "MessageCreate"
              /\ events[k].pc = "done"
              /\ ~events[k].message.bot
              /\ DOMAIN events[k].settings = {}
        /\ rowCount(events[i].guild) = 1

-----------------------------------------------------------------------------
(* Properties of the ticket system *)

\* C22: at every moment a user has at most one ticket with status 'open' per
\* guild, under every interleaving of that user's createTicket interactions.
C22_OneOpenTicketPerUser ==
    \A g \in Guilds, u \in TicketUsers :
        Len(getUserOpenTickets(tickets, g, u)) <= 1

\* C28: once createTicket has finished, every channel it created has a row in
\* the tickets table, also when it ended by reporting an error.
C28_NoChannelWithoutTicket ==
    \A i \in DOMAIN creates :
        (creates[i].pc = "done" /\ creates[i].channel # NULL)
            => \E k \in DOMAIN tickets : tickets[k].channel_id = creates[i].channel

\* The command prefix of a guild: that of its row, '!' without one.
prefixOf(g) ==
    IF rowsOf(settingsRows, g) # <<>> /\ rowsOf(settingsRows, g)[1].prefix # <<>>
    THEN rowsOf(settingsRows, g)[1].prefix
    ELSE defaultPrefix

\* C29: a message whose content starts with the guild's command prefix is
\* never passed to auto-moderation, whether or not the rest names a command
\* and whatever its author's permissions: the handler routes it to
\* handleCommand, filterMessage is not called and no automod_logs row is
\* written.
C29_CommandsSkipAutoModeration ==
    [][\A i \in DOMAIN events :
          LET text == events[i].message.text
              p == prefixOf(events[i].guild)
          IN (/\ events[i].pc = "dispatch"
              /\ events'[i].pc # "dispatch"
              /\ Len(text) >= Len(p)
              /\ \A k \in 1..Len(p) : text[k] = p[k])
                => /\ events'[i].route = "handleCommand"
                   /\ outcome' = outcome
                   /\ automod_logs' = automod_logs]_vars

\* A member's shouted message behind the prefix, naming no command, has been
\* handled in the guild with auto-moderation enabled, and nothing was logged.
C29_Witness ==
    \E i \in DOMAIN events :
        /\ events[i].pc = "done"
        /\ events[i].guild = "g1"
        /\ events[i].message.text = PrefixedShoutText
        /\ events[i].message.perm = "member"
        /\ events[i].route = "handleCommand"
        /\ automod_logs = <<>>

====
